---- MODULE Spec2Model ----
(***************************************************************************)
(* Asthma Risk Assessment (src/app.py): a Streamlit script.  Every user    *)
(* interaction re-runs the script from the top: the two cached loaders,    *)
(* the form, and -- when the Predict button was clicked -- the pipeline     *)
(* encode -> score -> categorize -> display.                                *)
(*                                                                         *)
(* Representation.  A text is a sequence of characters.  A                 *)
(* Python int or a float32 is a rational [n |-> numerator, d |->           *)
(* denominator] in lowest terms with d > 0; a Python float is the record   *)
(* [num, exp2] described with its arithmetic.  A numpy value is a tagged   *)
(* record:                                                                 *)
(* [tag |-> "scalar", v |-> number] or [tag |-> "array", items |-> <<..>>].*)
(***************************************************************************)
EXTENDS Integers, Sequences, FiniteSets, TLC

VARIABLES
    libm,           \* the C library's pow (line 128, `**`): for each height
                    \* squared so far, the way its square was rounded
    modelFile,      \* asthma_rf.onnx on disk
    featFile,       \* feature_order.json on disk
    modelCache,     \* st.cache_resource entry of load_model
    featCache,      \* st.cache_resource entry of load_features
    modelParses,    \* how many times the artifact was read and parsed
    featParses,     \* how many times the schema file was read and parsed
    pc,             \* position of the current script run
    button,         \* st.button(...) of this run: TRUE iff Predict was clicked
    answers,        \* the widgets' values (RawAnswers)
    edits,          \* widget changes made so far
    model,          \* global `model` of this run (line 25)
    feature_order,  \* global `feature_order` of this run (line 26)
    tables,         \* age_map, binary_map, smoking_map, cigs_map (lines 89-92)
    bmi,            \* line 128
    data_dict,      \* line 135
    input_row,      \* line 156
    pred,           \* line 158
    label,          \* lines 161-169: [risk_class, label]
    shown,          \* what st.markdown of line 171 displayed
    error,          \* the uncaught exception that ended the run
    formShown,      \* the input widgets were rendered in this run
    firstSub        \* the first submission encoded: its answers, order and vector

vars == <<libm, modelFile, featFile, modelCache, featCache, modelParses, featParses,
          pc, button, answers, edits, model, feature_order, tables, bmi,
          data_dict, input_row, pred, label, shown, error, formShown, firstSub>>

-----------------------------------------------------------------------------
(* Bounds of the model.                                                    *)

\* longest duration text enumerated character by character
MaxLen == 4
\* most decimal digits of an integer the model computes with
MaxDigits == 8
\* longest feature order enumerated name by name
MaxOrderLen == 2
\* most widget changes in one behaviour
MaxEdits == 1
\* most widget changes in one behaviour of the resubmissions
MaxResubmitEdits == 3

-----------------------------------------------------------------------------
(* Numbers.                                                                *)

Abs(x) == IF x < 0 THEN -x ELSE x

RECURSIVE Pow(_, _)
Pow(b, k) == IF k = 0 THEN 1 ELSE b * Pow(b, k - 1)

RECURSIVE Gcd(_, _)
Gcd(a, b) == IF b = 0 THEN a ELSE Gcd(b, a % b)

\* the rational n/d (d > 0) in lowest terms
Rat(n, d) == LET g == Gcd(Abs(n), d) IN [n |-> n \div g, d |-> d \div g]

\* a Python int
R(n) == [n |-> n, d |-> 1]

\* a < b on numbers
Less(a, b) == a.n * b.d < b.n * a.d

-----------------------------------------------------------------------------
(* numpy float32 (line 156, dtype=np.float32): round to nearest, ties to   *)
(* even, on a 24-bit significand; a value past the largest float32 is inf. *)
(* The roundings themselves follow the Python floats below.                *)

SigBits == 24

-----------------------------------------------------------------------------
(* Python floats (lines 118, 119 and 128): binary64, round to nearest,     *)
(* ties to even, on a 53-bit significand.  The exact value of a float is   *)
(* [num |-> m, exp2 |-> k], the number m / 2^k with m odd (0 / 2^0 for     *)
(* zero), as float.as_integer_ratio() gives it.  m outgrows the integers   *)
(* of the model, so it is written as the sequence of its digits in base    *)
(* BigBase, most significant first: <<1704, 4332, 4997, 8021>> is          *)
(* 1704433249978021.  The operators below compute with such digits least   *)
(* significant first, <<>> being 0.                                        *)

BigBase == Pow(10, 4)
DoubleBits == 53

\* the most twos one multiplication or division of a digit takes
TwosAtOnce == 13

RECURSIVE Reverse(_)
Reverse(a) == IF a = <<>> THEN <<>> ELSE Reverse(Tail(a)) \o <<a[1]>>

RECURSIVE BigOfNat(_)
BigOfNat(n) ==
    IF n = 0 THEN <<>> ELSE <<n % BigBase>> \o BigOfNat(n \div BigBase)

RECURSIVE NatOfBig(_)
NatOfBig(a) == IF a = <<>> THEN 0 ELSE a[1] + BigBase * NatOfBig(Tail(a))

\* the digit x below the digits a
BigPush(x, a) == IF a = <<>> /\ x = 0 THEN <<>> ELSE <<x>> \o a

\* the digit i of a, 0 above its digits
Limb(a, i) == IF i <= Len(a) THEN a[i] ELSE 0

\* a without its leading zero digits
BigTrim(a) ==
    SubSeq(a, 1, CHOOSE k \in 0..Len(a) :
                     /\ k = 0 \/ a[k] # 0
                     /\ \A j \in (k + 1)..Len(a) : a[j] = 0)

\* a < b, decided at the highest digit in which they differ
BigLess(a, b) ==
    IF Len(a) # Len(b) THEN Len(a) < Len(b)
    ELSE \E k \in 1..Len(a) :
            /\ a[k] < b[k]
            /\ \A j \in (k + 1)..Len(a) : a[j] = b[j]

\* the digits of the number whose places hold the sums s, each below
\* 2 * BigBase - 1: a carry comes into place i from a place below that
\* overflows, through places that pass it on
Carried(s) ==
    BigTrim([i \in 1..Len(s) |->
                (s[i] + IF \E j \in 1..(i - 1) :
                              /\ s[j] >= BigBase
                              /\ \A l \in (j + 1)..(i - 1) : s[l] >= BigBase - 1
                        THEN 1 ELSE 0) % BigBase] \o <<>>)

\* a + b + c for a carry c
BigAddC(a, b, c) ==
    Carried([i \in 1..((IF Len(a) > Len(b) THEN Len(a) ELSE Len(b)) + 1) |->
                Limb(a, i) + Limb(b, i) + (IF i = 1 THEN c ELSE 0)] \o <<>>)

\* a - b, a being the larger: place i lends to a place below that falls
\* short, through places that have nothing to lend
BigSub(a, b) ==
    LET s == [i \in 1..Len(a) |-> a[i] - Limb(b, i)] \o <<>>
    IN  BigTrim([i \in 1..Len(a) |->
                    (s[i] - (IF \E j \in 1..(i - 1) :
                                   /\ s[j] < 0
                                   /\ \A l \in (j + 1)..(i - 1) : s[l] <= 0
                             THEN 1 ELSE 0)
                          + BigBase) % BigBase] \o <<>>)

\* a * k for a digit k
BigTimes(a, k) ==
    Carried([i \in 1..(Len(a) + 1) |->
                ((Limb(a, i) * k) % BigBase)
                    + (IF i > 1 THEN (a[i - 1] * k) \div BigBase ELSE 0)] \o <<>>)

RECURSIVE BigMul(_, _)
BigMul(a, b) ==
    IF a = <<>> \/ b = <<>> THEN <<>>
    ELSE BigAddC(BigTimes(a, b[1]), BigPush(0, BigMul(a, Tail(b))), 0)

\* the division of the digits above x by the digit k, carried on by x
DivSmallStep(h, k, x) ==
    [q |-> BigPush((h.r * BigBase + x) \div k, h.q),
     r |-> (h.r * BigBase + x) % k]

\* a \div k and a % k for a digit k
RECURSIVE BigDivSmall(_, _)
BigDivSmall(a, k) ==
    IF a = <<>> THEN [q |-> <<>>, r |-> 0]
    ELSE DivSmallStep(BigDivSmall(Tail(a), k), k, a[1])

\* a * 2^s
RECURSIVE BigShift(_, _)
BigShift(a, s) ==
    IF a = <<>> \/ s <= TwosAtOnce THEN BigTimes(a, Pow(2, s))
    ELSE IF s <= 4 * TwosAtOnce
    THEN BigShift(BigTimes(a, Pow(2, TwosAtOnce)), s - TwosAtOnce)
    ELSE BigShift(BigTimes(BigTimes(BigTimes(BigTimes(a,
                      Pow(2, TwosAtOnce)), Pow(2, TwosAtOnce)),
                      Pow(2, TwosAtOnce)), Pow(2, TwosAtOnce)),
                  s - 4 * TwosAtOnce)

\* the least k in lo .. hi with a < 2^k
RECURSIVE BitLenIn(_, _, _)
BitLenIn(a, lo, hi) ==
    IF lo >= hi THEN lo
    ELSE IF BigLess(a, BigShift(<<1>>, (lo + hi) \div 2))
    THEN BitLenIn(a, lo, (lo + hi) \div 2)
    ELSE BitLenIn(a, (lo + hi) \div 2 + 1, hi)

\* the number of bits of a: a of L digits lies between 2^(13 (L - 1)) and
\* 2^(14 L)
BitLen(a) ==
    IF a = <<>> THEN 0
    ELSE BitLenIn(a, TwosAtOnce * (Len(a) - 1) + 1, (TwosAtOnce + 1) * Len(a))

\* the largest digit g in lo .. hi with g * d <= r
RECURSIVE DigitFor(_, _, _, _)
DigitFor(r, d, lo, hi) ==
    IF lo >= hi THEN lo
    ELSE IF BigLess(r, BigTimes(d, (lo + hi + 1) \div 2))
    THEN DigitFor(r, d, lo, (lo + hi + 1) \div 2 - 1)
    ELSE DigitFor(r, d, (lo + hi + 1) \div 2, hi)

\* long division: the remainder r so far takes the digit g of the quotient
DivDigitBy(q, r, d, g) ==
    [q |-> BigPush(g, q), r |-> BigSub(r, BigTimes(d, g))]
DivDigit(h, d, x) ==
    IF h.r = <<>> /\ x = 0 THEN [q |-> BigPush(0, h.q), r |-> <<>>]
    ELSE DivDigitBy(h.q, BigPush(x, h.r), d,
                    DigitFor(BigPush(x, h.r), d, 0, BigBase - 1))

\* n \div d and n % d, d # 0: a numerator of fewer digits than d is the
\* remainder long division starts from
RECURSIVE BigDivMod(_, _)
BigDivMod(n, d) ==
    IF Len(n) < Len(d) THEN [q |-> <<>>, r |-> n]
    ELSE DivDigit(BigDivMod(Tail(n), d), d, n[1])

\* n * 2^s for s > 0, n otherwise: n / d scaled by 2^s has the numerator
\* ScaleNum(n, s) and the denominator ScaleNum(d, -s)
ScaleNum(n, s) == IF s > 0 THEN BigShift(n, s) ELSE n

ScaledQuot(n, d, s) == BigDivMod(ScaleNum(n, s), ScaleNum(d, -s))

\* the s for which the whole part of n * 2^s / d has exactly the given
\* number of bits: s itself, or one less
ShiftFrom(n, d, bits, s) ==
    IF BitLen(ScaledQuot(n, d, s).q) > bits THEN s - 1 ELSE s

\* the ways pow rounds: to the float next below the exact result or to the
\* float next above it (the nearest float is one of the two; an exact
\* result is both)
Roundings == {"below", "above"}

\* the quotient h of a division by d, rounded below, above or, as the
\* hardware does, to nearest with ties to even
RoundQuot(h, d, rounding) ==
    IF CASE rounding = "below" -> FALSE
         [] rounding = "above" -> h.r # <<>>
         [] OTHER -> \/ BigLess(d, BigTimes(h.r, 2))
                     \/ (BigTimes(h.r, 2) = d /\ Limb(h.q, 1) % 2 = 1)
    THEN BigAddC(h.q, <<>>, 1)
    ELSE h.q

\* m / 2^s with the twos of m taken out one by one
RECURSIVE ReducedByTwo(_, _)
ReducedByTwo(m, s) ==
    IF Limb(m, 1) % 2 = 0 THEN ReducedByTwo(BigDivSmall(m, 2).q, s - 1)
    ELSE [num |-> Reverse(m), exp2 |-> s]

\* m / 2^s with the twos of m taken out, m # 0
RECURSIVE Reduced(_, _)
Reduced(m, s) ==
    IF BigDivSmall(m, Pow(2, TwosAtOnce)).r = 0
    THEN Reduced(BigDivSmall(m, Pow(2, TwosAtOnce)).q, s - TwosAtOnce)
    ELSE ReducedByTwo(m, s)

RoundAt(n, d, s, rounding) ==
    Reduced(RoundQuot(ScaledQuot(n, d, s), ScaleNum(d, -s), rounding), s)

\* n / d rounded to the given number of significant bits
RoundRatio(n, d, bits, rounding) ==
    IF n = <<>> THEN [num |-> <<>>, exp2 |-> 0]
    ELSE RoundAt(n, d, ShiftFrom(n, d, bits, bits - (BitLen(n) - BitLen(d))),
                 rounding)

\* x * 2^k
Scaled(x, k) ==
    IF x.num = <<>> THEN x ELSE [num |-> x.num, exp2 |-> x.exp2 - k]

\* the float nearest to the number r >= 0: what a widget gives for the
\* decimal typed into it
DoubleOf(r) == RoundRatio(BigOfNat(r.n), BigOfNat(r.d), DoubleBits, "nearest")

\* x / y on floats, y # 0
DoubleDiv(x, y) ==
    Scaled(RoundRatio(Reverse(x.num), Reverse(y.num), DoubleBits, "nearest"),
           y.exp2 - x.exp2)

\* x ** 2: pow(x, 2.0) of the C library, which need not round to nearest.
\* It gives the float next below or next above x * x, and x * x itself
\* when that is a float; which of the two depends on x, and is the same
\* every time x is squared.
DoubleSquare(x, rounding) ==
    Scaled(RoundRatio(BigMul(Reverse(x.num), Reverse(x.num)), <<1>>,
                      DoubleBits, rounding),
           -(2 * x.exp2))

\* the number m / 2^k of x, a rational
RatOfBinary(x) ==
    IF x.exp2 >= 0 THEN Rat(NatOfBig(Reverse(x.num)), Pow(2, x.exp2))
    ELSE Rat(NatOfBig(Reverse(x.num)) * Pow(2, -x.exp2), 1)

\* the number of bits of the whole part of x (0 or less: x < 1)
WholeBits(x) == IF x.num = <<>> THEN 0 ELSE BitLen(Reverse(x.num)) - x.exp2

\* the most bits of the whole part of a float and of a float32
DoubleMaxBits  == 1024
Float32MaxBits == 128

\* the number r with the sign neg, as the model writes a Python int or a
\* float32: a rational when the integers hold it (31 bits), the record
\* otherwise
Signed(r, neg) ==
    IF WholeBits(r) > 31
    THEN [num |-> r.num, exp2 |-> r.exp2, neg |-> neg]
    ELSE IF neg THEN [n |-> -RatOfBinary(r).n, d |-> RatOfBinary(r).d]
    ELSE RatOfBinary(r)

\* the float32 that r, already rounded to SigBits bits, is: past the
\* largest float32 the cast gives inf
Float32OfRounded(r, neg) ==
    IF WholeBits(r) > Float32MaxBits THEN [inf |-> TRUE, neg |-> neg]
    ELSE Signed(r, neg)

\* np.float32(x) of a float x >= 0, or of a Python int written as a
\* record (a float holds it exactly)
Float32OfDouble(x) ==
    Float32OfRounded(
        Scaled(RoundRatio(Reverse(x.num), <<1>>, SigBits, "nearest"), -x.exp2),
        "neg" \in DOMAIN x /\ x.neg)

\* np.float32(x) of a rational x; an integer below 2^SigBits is a float32
Float32(x) ==
    IF x.d = 1 /\ Abs(x.n) < Pow(2, SigBits) THEN x
    ELSE Float32OfRounded(
             RoundRatio(BigOfNat(Abs(x.n)), BigOfNat(x.d), SigBits, "nearest"),
             x.n < 0)

-----------------------------------------------------------------------------
(* Texts.  A character is a one-character string; a character that no      *)
(* string of this language holds is named by its code point, as "U+00A0".  *)

Range(f) == {f[i] : i \in DOMAIN f}

\* the decimal digits float() reads (Unicode 14.0): every row holds the
\* digits of one script, the digit of value v at place v + 1
DecimalDigits ==
    <<
       <<"0", "1", "2", "3", "4", "5", "6", "7", "8", "9">>,
       <<"U+0660", "U+0661", "U+0662", "U+0663", "U+0664", "U+0665", "U+0666", "U+0667", "U+0668", "U+0669">>,
       <<"U+06F0", "U+06F1", "U+06F2", "U+06F3", "U+06F4", "U+06F5", "U+06F6", "U+06F7", "U+06F8", "U+06F9">>,
       <<"U+07C0", "U+07C1", "U+07C2", "U+07C3", "U+07C4", "U+07C5", "U+07C6", "U+07C7", "U+07C8", "U+07C9">>,
       <<"U+0966", "U+0967", "U+0968", "U+0969", "U+096A", "U+096B", "U+096C", "U+096D", "U+096E", "U+096F">>,
       <<"U+09E6", "U+09E7", "U+09E8", "U+09E9", "U+09EA", "U+09EB", "U+09EC", "U+09ED", "U+09EE", "U+09EF">>,
       <<"U+0A66", "U+0A67", "U+0A68", "U+0A69", "U+0A6A", "U+0A6B", "U+0A6C", "U+0A6D", "U+0A6E", "U+0A6F">>,
       <<"U+0AE6", "U+0AE7", "U+0AE8", "U+0AE9", "U+0AEA", "U+0AEB", "U+0AEC", "U+0AED", "U+0AEE", "U+0AEF">>,
       <<"U+0B66", "U+0B67", "U+0B68", "U+0B69", "U+0B6A", "U+0B6B", "U+0B6C", "U+0B6D", "U+0B6E", "U+0B6F">>,
       <<"U+0BE6", "U+0BE7", "U+0BE8", "U+0BE9", "U+0BEA", "U+0BEB", "U+0BEC", "U+0BED", "U+0BEE", "U+0BEF">>,
       <<"U+0C66", "U+0C67", "U+0C68", "U+0C69", "U+0C6A", "U+0C6B", "U+0C6C", "U+0C6D", "U+0C6E", "U+0C6F">>,
       <<"U+0CE6", "U+0CE7", "U+0CE8", "U+0CE9", "U+0CEA", "U+0CEB", "U+0CEC", "U+0CED", "U+0CEE", "U+0CEF">>,
       <<"U+0D66", "U+0D67", "U+0D68", "U+0D69", "U+0D6A", "U+0D6B", "U+0D6C", "U+0D6D", "U+0D6E", "U+0D6F">>,
       <<"U+0DE6", "U+0DE7", "U+0DE8", "U+0DE9", "U+0DEA", "U+0DEB", "U+0DEC", "U+0DED", "U+0DEE", "U+0DEF">>,
       <<"U+0E50", "U+0E51", "U+0E52", "U+0E53", "U+0E54", "U+0E55", "U+0E56", "U+0E57", "U+0E58", "U+0E59">>,
       <<"U+0ED0", "U+0ED1", "U+0ED2", "U+0ED3", "U+0ED4", "U+0ED5", "U+0ED6", "U+0ED7", "U+0ED8", "U+0ED9">>,
       <<"U+0F20", "U+0F21", "U+0F22", "U+0F23", "U+0F24", "U+0F25", "U+0F26", "U+0F27", "U+0F28", "U+0F29">>,
       <<"U+1040", "U+1041", "U+1042", "U+1043", "U+1044", "U+1045", "U+1046", "U+1047", "U+1048", "U+1049">>,
       <<"U+1090", "U+1091", "U+1092", "U+1093", "U+1094", "U+1095", "U+1096", "U+1097", "U+1098", "U+1099">>,
       <<"U+17E0", "U+17E1", "U+17E2", "U+17E3", "U+17E4", "U+17E5", "U+17E6", "U+17E7", "U+17E8", "U+17E9">>,
       <<"U+1810", "U+1811", "U+1812", "U+1813", "U+1814", "U+1815", "U+1816", "U+1817", "U+1818", "U+1819">>,
       <<"U+1946", "U+1947", "U+1948", "U+1949", "U+194A", "U+194B", "U+194C", "U+194D", "U+194E", "U+194F">>,
       <<"U+19D0", "U+19D1", "U+19D2", "U+19D3", "U+19D4", "U+19D5", "U+19D6", "U+19D7", "U+19D8", "U+19D9">>,
       <<"U+1A80", "U+1A81", "U+1A82", "U+1A83", "U+1A84", "U+1A85", "U+1A86", "U+1A87", "U+1A88", "U+1A89">>,
       <<"U+1A90", "U+1A91", "U+1A92", "U+1A93", "U+1A94", "U+1A95", "U+1A96", "U+1A97", "U+1A98", "U+1A99">>,
       <<"U+1B50", "U+1B51", "U+1B52", "U+1B53", "U+1B54", "U+1B55", "U+1B56", "U+1B57", "U+1B58", "U+1B59">>,
       <<"U+1BB0", "U+1BB1", "U+1BB2", "U+1BB3", "U+1BB4", "U+1BB5", "U+1BB6", "U+1BB7", "U+1BB8", "U+1BB9">>,
       <<"U+1C40", "U+1C41", "U+1C42", "U+1C43", "U+1C44", "U+1C45", "U+1C46", "U+1C47", "U+1C48", "U+1C49">>,
       <<"U+1C50", "U+1C51", "U+1C52", "U+1C53", "U+1C54", "U+1C55", "U+1C56", "U+1C57", "U+1C58", "U+1C59">>,
       <<"U+A620", "U+A621", "U+A622", "U+A623", "U+A624", "U+A625", "U+A626", "U+A627", "U+A628", "U+A629">>,
       <<"U+A8D0", "U+A8D1", "U+A8D2", "U+A8D3", "U+A8D4", "U+A8D5", "U+A8D6", "U+A8D7", "U+A8D8", "U+A8D9">>,
       <<"U+A900", "U+A901", "U+A902", "U+A903", "U+A904", "U+A905", "U+A906", "U+A907", "U+A908", "U+A909">>,
       <<"U+A9D0", "U+A9D1", "U+A9D2", "U+A9D3", "U+A9D4", "U+A9D5", "U+A9D6", "U+A9D7", "U+A9D8", "U+A9D9">>,
       <<"U+A9F0", "U+A9F1", "U+A9F2", "U+A9F3", "U+A9F4", "U+A9F5", "U+A9F6", "U+A9F7", "U+A9F8", "U+A9F9">>,
       <<"U+AA50", "U+AA51", "U+AA52", "U+AA53", "U+AA54", "U+AA55", "U+AA56", "U+AA57", "U+AA58", "U+AA59">>,
       <<"U+ABF0", "U+ABF1", "U+ABF2", "U+ABF3", "U+ABF4", "U+ABF5", "U+ABF6", "U+ABF7", "U+ABF8", "U+ABF9">>,
       <<"U+FF10", "U+FF11", "U+FF12", "U+FF13", "U+FF14", "U+FF15", "U+FF16", "U+FF17", "U+FF18", "U+FF19">>,
       <<"U+104A0", "U+104A1", "U+104A2", "U+104A3", "U+104A4", "U+104A5", "U+104A6", "U+104A7", "U+104A8", "U+104A9">>,
       <<"U+10D30", "U+10D31", "U+10D32", "U+10D33", "U+10D34", "U+10D35", "U+10D36", "U+10D37", "U+10D38", "U+10D39">>,
       <<"U+11066", "U+11067", "U+11068", "U+11069", "U+1106A", "U+1106B", "U+1106C", "U+1106D", "U+1106E", "U+1106F">>,
       <<"U+110F0", "U+110F1", "U+110F2", "U+110F3", "U+110F4", "U+110F5", "U+110F6", "U+110F7", "U+110F8", "U+110F9">>,
       <<"U+11136", "U+11137", "U+11138", "U+11139", "U+1113A", "U+1113B", "U+1113C", "U+1113D", "U+1113E", "U+1113F">>,
       <<"U+111D0", "U+111D1", "U+111D2", "U+111D3", "U+111D4", "U+111D5", "U+111D6", "U+111D7", "U+111D8", "U+111D9">>,
       <<"U+112F0", "U+112F1", "U+112F2", "U+112F3", "U+112F4", "U+112F5", "U+112F6", "U+112F7", "U+112F8", "U+112F9">>,
       <<"U+11450", "U+11451", "U+11452", "U+11453", "U+11454", "U+11455", "U+11456", "U+11457", "U+11458", "U+11459">>,
       <<"U+114D0", "U+114D1", "U+114D2", "U+114D3", "U+114D4", "U+114D5", "U+114D6", "U+114D7", "U+114D8", "U+114D9">>,
       <<"U+11650", "U+11651", "U+11652", "U+11653", "U+11654", "U+11655", "U+11656", "U+11657", "U+11658", "U+11659">>,
       <<"U+116C0", "U+116C1", "U+116C2", "U+116C3", "U+116C4", "U+116C5", "U+116C6", "U+116C7", "U+116C8", "U+116C9">>,
       <<"U+11730", "U+11731", "U+11732", "U+11733", "U+11734", "U+11735", "U+11736", "U+11737", "U+11738", "U+11739">>,
       <<"U+118E0", "U+118E1", "U+118E2", "U+118E3", "U+118E4", "U+118E5", "U+118E6", "U+118E7", "U+118E8", "U+118E9">>,
       <<"U+11950", "U+11951", "U+11952", "U+11953", "U+11954", "U+11955", "U+11956", "U+11957", "U+11958", "U+11959">>,
       <<"U+11C50", "U+11C51", "U+11C52", "U+11C53", "U+11C54", "U+11C55", "U+11C56", "U+11C57", "U+11C58", "U+11C59">>,
       <<"U+11D50", "U+11D51", "U+11D52", "U+11D53", "U+11D54", "U+11D55", "U+11D56", "U+11D57", "U+11D58", "U+11D59">>,
       <<"U+11DA0", "U+11DA1", "U+11DA2", "U+11DA3", "U+11DA4", "U+11DA5", "U+11DA6", "U+11DA7", "U+11DA8", "U+11DA9">>,
       <<"U+16A60", "U+16A61", "U+16A62", "U+16A63", "U+16A64", "U+16A65", "U+16A66", "U+16A67", "U+16A68", "U+16A69">>,
       <<"U+16AC0", "U+16AC1", "U+16AC2", "U+16AC3", "U+16AC4", "U+16AC5", "U+16AC6", "U+16AC7", "U+16AC8", "U+16AC9">>,
       <<"U+16B50", "U+16B51", "U+16B52", "U+16B53", "U+16B54", "U+16B55", "U+16B56", "U+16B57", "U+16B58", "U+16B59">>,
       <<"U+1D7CE", "U+1D7CF", "U+1D7D0", "U+1D7D1", "U+1D7D2", "U+1D7D3", "U+1D7D4", "U+1D7D5", "U+1D7D6", "U+1D7D7">>,
       <<"U+1D7D8", "U+1D7D9", "U+1D7DA", "U+1D7DB", "U+1D7DC", "U+1D7DD", "U+1D7DE", "U+1D7DF", "U+1D7E0", "U+1D7E1">>,
       <<"U+1D7E2", "U+1D7E3", "U+1D7E4", "U+1D7E5", "U+1D7E6", "U+1D7E7", "U+1D7E8", "U+1D7E9", "U+1D7EA", "U+1D7EB">>,
       <<"U+1D7EC", "U+1D7ED", "U+1D7EE", "U+1D7EF", "U+1D7F0", "U+1D7F1", "U+1D7F2", "U+1D7F3", "U+1D7F4", "U+1D7F5">>,
       <<"U+1D7F6", "U+1D7F7", "U+1D7F8", "U+1D7F9", "U+1D7FA", "U+1D7FB", "U+1D7FC", "U+1D7FD", "U+1D7FE", "U+1D7FF">>,
       <<"U+1E140", "U+1E141", "U+1E142", "U+1E143", "U+1E144", "U+1E145", "U+1E146", "U+1E147", "U+1E148", "U+1E149">>,
       <<"U+1E2F0", "U+1E2F1", "U+1E2F2", "U+1E2F3", "U+1E2F4", "U+1E2F5", "U+1E2F6", "U+1E2F7", "U+1E2F8", "U+1E2F9">>,
       <<"U+1E950", "U+1E951", "U+1E952", "U+1E953", "U+1E954", "U+1E955", "U+1E956", "U+1E957", "U+1E958", "U+1E959">>,
       <<"U+1FBF0", "U+1FBF1", "U+1FBF2", "U+1FBF3", "U+1FBF4", "U+1FBF5", "U+1FBF6", "U+1FBF7", "U+1FBF8", "U+1FBF9">>
    >>

Digits == UNION {Range(DecimalDigits[r]) : r \in DOMAIN DecimalDigits}

DigitVal(c) ==
    CASE c = "0" -> 0 [] c = "1" -> 1 [] c = "2" -> 2 [] c = "3" -> 3
      [] c = "4" -> 4 [] c = "5" -> 5 [] c = "6" -> 6 [] c = "7" -> 7
      [] c = "8" -> 8 [] c = "9" -> 9
      [] OTHER -> CHOOSE v \in 0..9 :
                      \E r \in DOMAIN DecimalDigits : DecimalDigits[r][v + 1] = c

\* the characters str.split() separates on (those of str.isspace)
Whitespace ==
    {"\t", "\n", "U+000B", "\f", "\r", "U+001C", "U+001D", "U+001E",
     "U+001F", " ", "U+0085", "U+00A0", "U+1680", "U+2000", "U+2001",
     "U+2002", "U+2003", "U+2004", "U+2005", "U+2006", "U+2007", "U+2008",
     "U+2009", "U+200A", "U+2028", "U+2029", "U+202F", "U+205F", "U+3000"}

\* float() reads its words without regard to case
Lower(c) ==
    CASE c = "E" -> "e" [] c = "I" -> "i" [] c = "N" -> "n" [] c = "F" -> "f"
      [] c = "A" -> "a" [] c = "T" -> "t" [] c = "Y" -> "y" [] OTHER -> c

LowerText(s) == [i \in 1..Len(s) |-> Lower(s[i])]

\* the literal "Invalid" of line 95
Invalid == <<"I", "n", "v", "a", "l", "i", "d">>

\* the first index >= i of s that holds no whitespace (Len(s)+1 when none)
SkipSpace(s, i) ==
    IF i > Len(s) THEN i
    ELSE CHOOSE j \in i..(Len(s) + 1) :
            /\ j = Len(s) + 1 \/ s[j] \notin Whitespace
            /\ \A k \in i..(j - 1) : s[k] \in Whitespace

\* the first index >= i of s that holds whitespace (Len(s)+1 when none)
SkipWord(s, i) ==
    IF i > Len(s) THEN i
    ELSE CHOOSE j \in i..(Len(s) + 1) :
            /\ j = Len(s) + 1 \/ s[j] \in Whitespace
            /\ \A k \in i..(j - 1) : s[k] \notin Whitespace

\* str(x).split(): whether it has an element 0, and that element
HasToken(s) == SkipSpace(s, 1) <= Len(s)
FirstToken(s) ==
    LET b == SkipSpace(s, 1) IN SubSeq(s, b, SkipWord(s, b) - 1)

-----------------------------------------------------------------------------
(* float(token) and int(float) of line 97.                                 *)

\* whether s[j] is a digit, or an underscore between two digits
InRun(s, j) ==
    \/ s[j] \in Digits
    \/ /\ s[j] = "_" /\ j > 1 /\ j < Len(s)
       /\ s[j - 1] \in Digits /\ s[j + 1] \in Digits

\* the index after the run of digits of s that starts at i; one underscore
\* may stand between two digits
RunEnd(s, i) ==
    IF i > Len(s) THEN i
    ELSE CHOOSE j \in i..(Len(s) + 1) :
            /\ j = Len(s) + 1 \/ ~InRun(s, j)
            /\ \A k \in i..(j - 1) : InRun(s, k)

\* the digits of s[a .. b-1], underscores left out
DigitsOf(s, a, b) ==
    LET ds == SelectSeq(SubSeq(s, a, b - 1), LAMBDA c : c # "_")
    IN  [i \in 1..Len(ds) |-> DigitVal(ds[i])] \o <<>>

\* ds without its leading zeros
StripZeros(ds) ==
    SubSeq(ds, CHOOSE k \in 1..(Len(ds) + 1) :
                   /\ k = Len(ds) + 1 \/ ds[k] # 0
                   /\ \A j \in 1..(k - 1) : ds[j] = 0,
           Len(ds))

\* the most digits of a decimal that the integers hold
SmallDigits == 9

\* the number the decimal digits ds spell; 10^SmallDigits stands for the
\* number of more digits, the exponent of a number that is 0 or out of the
\* range of a float whatever its digits are
RECURSIVE DecimalValue(_)
DecimalValue(ds) ==
    IF ds = <<>> THEN 0
    ELSE IF Len(ds) > SmallDigits THEN Pow(10, SmallDigits)
    ELSE 10 * DecimalValue(SubSeq(ds, 1, Len(ds) - 1)) + ds[Len(ds)]

\* the length of the sign that starts s
SignLen(s) == IF Len(s) >= 1 /\ s[1] \in {"+", "-"} THEN 1 ELSE 0

\* the index after the fraction of s, its integer digits ending before i1
FracEnd(s, i1) ==
    IF i1 <= Len(s) /\ s[i1] = "." THEN RunEnd(s, i1 + 1) ELSE i1

\* the index of the first digit of the exponent of s, its mantissa ending
\* before f1 (f1 itself when no exponent follows)
ExpStart(s, f1) ==
    IF f1 <= Len(s) /\ s[f1] = "e"
    THEN IF f1 + 1 <= Len(s) /\ s[f1 + 1] \in {"+", "-"} THEN f1 + 2 ELSE f1 + 1
    ELSE f1

\* the number s spells: integer digits s[i0 .. i1-1], fraction up to f1-1,
\* exponent digits s[e1 .. e2-1]
ParseNumber(s, i0, i1, f1, e1, e2) ==
    IF \/ (i1 = i0 /\ f1 <= i1 + 1)
       \/ (e1 > f1 /\ e2 = e1)
       \/ e2 # Len(s) + 1
    THEN [kind |-> "error"]
    ELSE [kind |-> "num", neg |-> (i0 = 2 /\ s[1] = "-"),
          sig  |-> StripZeros(DigitsOf(s, i0, i1) \o DigitsOf(s, i1 + 1, f1)),
          exp  |-> (IF e1 > f1 /\ s[e1 - 1] = "-"
                    THEN -DecimalValue(StripZeros(DigitsOf(s, e1, e2)))
                    ELSE DecimalValue(StripZeros(DigitsOf(s, e1, e2))))
                   - Len(DigitsOf(s, i1 + 1, f1))]

ParseExponent(s, i0, i1, f1, e1) ==
    ParseNumber(s, i0, i1, f1, e1, IF e1 > f1 THEN RunEnd(s, e1) ELSE f1)

ParseFraction(s, i0, i1, f1) == ParseExponent(s, i0, i1, f1, ExpStart(s, f1))

ParseMantissa(s, i0, i1) == ParseFraction(s, i0, i1, FracEnd(s, i1))

\* float() of a lower-case token whose sign has sg characters
ParseSigned(s, sg) ==
    IF SubSeq(s, sg + 1, Len(s)) \in
          {<<"i", "n", "f">>, <<"i", "n", "f", "i", "n", "i", "t", "y">>}
    THEN [kind |-> "inf", neg |-> (sg = 1 /\ s[1] = "-")]
    ELSE IF SubSeq(s, sg + 1, Len(s)) = <<"n", "a", "n">>
    THEN [kind |-> "nan", neg |-> (sg = 1 /\ s[1] = "-")]
    ELSE ParseMantissa(s, sg + 1, RunEnd(s, sg + 1))

ParseLowered(s) == ParseSigned(s, SignLen(s))

\* float(tok): [kind |-> "error"] for a ValueError, "nan", "inf", or
\* "num" with the sign, the significant digits and the power of ten
ParseFloat(tok) == ParseLowered(LowerText(tok))

\* a double holds no number of 310 integer digits: float() gives inf
MaxDoubleDigits == 309

\* the number of digits of the integer part of a parsed number (<= 0:
\* none); zero has none whatever its exponent
IntDigits(p) == IF p.sig = <<>> THEN 0 ELSE Len(p.sig) + p.exp

\* the whole number the decimal digits ds spell, as digits in base BigBase
BigOfDigits(ds) ==
    [i \in 1..((Len(ds) + 3) \div 4) |->
        DecimalValue(SubSeq(ds, IF Len(ds) - 4 * i + 1 < 1 THEN 1
                                ELSE Len(ds) - 4 * i + 1,
                            Len(ds) - 4 * (i - 1)))]

\* a * 10^e for a # 0
BigTimesTen(a, e) == [i \in 1..(e \div 4) |-> 0] \o BigTimes(a, Pow(10, e % 4))

\* float(tok) for a parsed number that is not zero: the float nearest to
\* sig * 10^exp
FloatOfDecimal(p) ==
    RoundRatio(BigTimesTen(BigOfDigits(p.sig), IF p.exp > 0 THEN p.exp ELSE 0),
               BigTimesTen(<<1>>, IF p.exp < 0 THEN -p.exp ELSE 0),
               DoubleBits, "nearest")

\* int(x) for the float x with the sign neg: past the largest float x is
\* inf and int() raises; otherwise the whole part of x
IntOfDouble(x, neg) ==
    IF WholeBits(x) > DoubleMaxBits THEN [exc |-> "OverflowError", val |-> R(0)]
    ELSE [exc |-> "none",
          val |-> Signed(IF x.exp2 <= 0 THEN x
                         ELSE IF WholeBits(x) <= 0 THEN [num |-> <<>>, exp2 |-> 0]
                         ELSE Reduced(BigDivMod(Reverse(x.num),
                                                BigShift(<<1>>, x.exp2)).q, 0),
                         neg)]

\* int(f) for f = float(tok): truncation toward zero; a ValueError of
\* float() passes through; nan and inf raise.  A number of at most
\* SmallDigits digits whose integer part has no more is so far from the
\* next whole number that rounding it to a float does not reach it: its
\* integer part is that of the decimal.
IntOfFloat(p) ==
    CASE p.kind = "error" -> [exc |-> "ValueError", val |-> R(0)]
      [] p.kind = "nan" -> [exc |-> "ValueError", val |-> R(0)]
      [] p.kind = "inf" -> [exc |-> "OverflowError", val |-> R(0)]
      [] p.kind = "num" ->
            IF IntDigits(p) > MaxDoubleDigits
            THEN [exc |-> "OverflowError", val |-> R(0)]
            ELSE IF p.sig = <<>> \/ IntDigits(p) < 0
            THEN [exc |-> "none", val |-> R(0)]
            ELSE IF Len(p.sig) <= SmallDigits /\ IntDigits(p) <= SmallDigits
            THEN [exc |-> "none",
                  val |-> R((IF p.neg THEN -1 ELSE 1)
                            * (IF p.exp >= 0
                               THEN DecimalValue(p.sig) * Pow(10, p.exp)
                               ELSE DecimalValue(p.sig) \div Pow(10, -p.exp)))]
            ELSE IntOfDouble(FloatOfDecimal(p), p.neg)

\* the try body of line 97: int(float(str(x).split()[0]))
DurationBody(x) ==
    IF ~HasToken(x) THEN [exc |-> "IndexError", val |-> R(0)]
    ELSE IntOfFloat(ParseFloat(FirstToken(x)))

\* a variant of DurationHandler: `except ValueError:`
DurationHandlerValueError(r) ==
    IF r.exc = "ValueError" THEN [exc |-> "none", val |-> R(-1)] ELSE r

\* the bare `except:` of line 98: every exception of the body gives -1
DurationHandler(r) ==
    IF r.exc # "none" THEN [exc |-> "none", val |-> R(-1)] ELSE r

\* encode_duration(x): what it returns (val) or raises (exc)
encode_duration(x) ==
    IF x = Invalid THEN [exc |-> "none", val |-> R(-1)]
    ELSE DurationHandler(DurationBody(x))

\* the texts enumerated character by character are kept to numbers of at
\* most MaxDigits digits, or past the range of a float
NumberInRange(p) ==
    p.kind = "num" =>
        /\ Len(p.sig) <= MaxDigits
        /\ IntDigits(p) <= MaxDigits \/ IntDigits(p) > MaxDoubleDigits

DurationInRange(x) == ~HasToken(x) \/ NumberInRange(ParseFloat(FirstToken(x)))

-----------------------------------------------------------------------------
(* The lookup tables (lines 89-92) and the widgets (lines 107-125).        *)

NoneVal == [tag |-> "None"]

age_keys     == <<"Under 15", "15-30", "30-45", "45-60", "60+">>
smoking_keys == <<"No", "Some days", "Every day", "Invalid">>
cigs_keys    == <<"<1", "2-5", ">5", "Invalid">>

age_map ==
    ("Under 15" :> 0) @@ ("15-30" :> 1) @@ ("30-45" :> 2) @@ ("45-60" :> 3)
        @@ ("60+" :> 4)
binary_map  == ("Yes" :> 1) @@ ("No" :> 0)
smoking_map ==
    ("No" :> 0) @@ ("Some days" :> 1) @@ ("Every day" :> 2) @@ ("Invalid" :> -1)
cigs_map    == ("<1" :> 0) @@ ("2-5" :> 1) @@ (">5" :> 2) @@ ("Invalid" :> -1)

\* a variant of Tables: "Invalid" continues the ordinals of smoking_map
TablesInvalidOrdinal ==
    [age_map |-> age_map, binary_map |-> binary_map,
     smoking_map |-> [smoking_map EXCEPT !["Invalid"] = 3],
     cigs_map |-> cigs_map]

\* the four module-level dicts as one value
Tables ==
    [age_map |-> age_map, binary_map |-> binary_map,
     smoking_map |-> smoking_map, cigs_map |-> cigs_map]

GenderOptions == <<"Male", "Female">>
YesNoOptions  == <<"Yes", "No">>

\* the widgets that offer Yes / No
YesNoWidgets ==
    {"pregnancy", "blood_pressure", "cholesterol", "diabetes", "home_pes",
     "weed_pes", "had_asthma", "still_asthma", "er_visit"}

\* weights and heights typed into the number inputs: the ends of their
\* ranges, the defaults, and decimals no float holds exactly
WeightSamples == {R(1), R(70), Rat(726, 10), R(200)}
HeightSamples == {R(50), Rat(1655, 10), R(170), R(220)}

\* the floats the number inputs give for them
WeightFloats == {DoubleOf(r) : r \in WeightSamples}
HeightFloats == {DoubleOf(r) : r \in HeightSamples}

\* the values of the widgets when a session opens: a selectbox shows its
\* first option, the other widgets their stated default
DefaultAnswers ==
    [gender_label |-> GenderOptions[1], age_group |-> age_keys[1],
     pregnancy |-> YesNoOptions[1], blood_pressure |-> YesNoOptions[1],
     cholesterol |-> YesNoOptions[1], diabetes |-> YesNoOptions[1],
     home_pes |-> YesNoOptions[1], weed_pes |-> YesNoOptions[1],
     had_asthma |-> YesNoOptions[1],
     weight |-> DoubleOf(R(70)), height |-> DoubleOf(R(170)),
     exercise |-> 8,
     smoking |-> smoking_keys[1], cigs |-> cigs_keys[1],
     duration_insulin |-> Invalid,
     still_asthma |-> YesNoOptions[1], er_visit |-> YesNoOptions[1]]

\* line 128: weight / ((height/100)**2) on floats, 100 and 2 made floats
BmiOf(w, h, rounding) ==
    DoubleDiv(w, DoubleSquare(DoubleDiv(h, DoubleOf(R(100))), rounding))

\* line 128 for the weights and heights of the behaviours, computed once
BmiTable ==
    {<<w, h, r, BmiOf(w, h, r)>> :
        w \in WeightFloats, h \in HeightFloats, r \in Roundings}

Bmi(a, rounding) ==
    IF \E t \in BmiTable :
          t[1] = a.weight /\ t[2] = a.height /\ t[3] = rounding
    THEN (CHOOSE t \in BmiTable :
              t[1] = a.weight /\ t[2] = a.height /\ t[3] = rounding)[4]
    ELSE BmiOf(a.weight, a.height, rounding)

\* np.float32 of the floats of the behaviours, computed once
Float32Table ==
    {<<x, Float32OfDouble(x)>> :
        x \in WeightFloats \cup HeightFloats \cup {t[4] : t \in BmiTable}}

\* the float32 an element of the array holds: of a Python int or a float
ToFloat32(v) ==
    IF "exp2" \notin DOMAIN v THEN Float32(v)
    ELSE IF \E t \in Float32Table : t[1] = v
    THEN (CHOOSE t \in Float32Table : t[1] = v)[2]
    ELSE Float32OfDouble(v)

\* whether the subscripts of lines 137-148 find their keys
KeysPresent(a, t) ==
    /\ a.age_group \in DOMAIN t.age_map
    /\ \A w \in YesNoWidgets : a[w] \in DOMAIN t.binary_map
    /\ a.smoking \in DOMAIN t.smoking_map
    /\ a.cigs \in DOMAIN t.cigs_map

\* lines 135-154: the dict literal, key by key
DataDictOf(a, t, b, dur) ==
    [Gender             |-> R(IF a.gender_label = "Male" THEN 1 ELSE 0),
     Age_Group          |-> R(t.age_map[a.age_group]),
     Pregnancy_status   |-> R(t.binary_map[a.pregnancy]),
     Blood_pressure     |-> R(t.binary_map[a.blood_pressure]),
     Cholesterol        |-> R(t.binary_map[a.cholesterol]),
     Diabetes           |-> R(t.binary_map[a.diabetes]),
     Home_pesticides    |-> R(t.binary_map[a.home_pes]),
     Weed_pesticides    |-> R(t.binary_map[a.weed_pes]),
     Had_asthma         |-> R(t.binary_map[a.had_asthma]),
     Still_asthma       |-> R(t.binary_map[a.still_asthma]),
     ER_visit_past_year |-> R(t.binary_map[a.er_visit]),
     Smoking_frequency  |-> R(t.smoking_map[a.smoking]),
     Cigarettes_per_day |-> R(t.cigs_map[a.cigs]),
     Duration_insulin   |-> dur,
     Weight_kg          |-> a.weight,
     Height_cm          |-> a.height,
     BMI                |-> b,
     Exercise_per_month |-> R(a.exercise)]

\* lines 135-154 with what they can raise, dur being what
\* encode_duration returned or raised
DataDictWith(a, t, b, dur) ==
    IF ~KeysPresent(a, t) THEN [exc |-> "KeyError", val |-> NoneVal]
    ELSE IF dur.exc # "none" THEN [exc |-> dur.exc, val |-> NoneVal]
    ELSE [exc |-> "none", val |-> DataDictOf(a, t, b, dur.val)]

BuildDataDict(a, t, b) ==
    DataDictWith(a, t, b, encode_duration(a.duration_insulin))

\* a variant of DictGet: the invalid sentinel for a name the dict lacks
DictGetSentinel(d, feat) == IF feat \in DOMAIN d THEN d[feat] ELSE R(-1)

\* data_dict.get(feat, 0)
DictGet(d, feat) == IF feat \in DOMAIN d THEN d[feat] ELSE R(0)

\* a variant of InputRow: names the dict lacks are left out
InputRowKnownOnly(d, order) ==
    << [i \in 1..Len(SelectSeq(order, LAMBDA f : f \in DOMAIN d)) |->
           ToFloat32(d[SelectSeq(order, LAMBDA f : f \in DOMAIN d)[i]])] >>

\* line 156: one row, one float32 per name of the order, in its order
InputRow(d, order) ==
    << [i \in 1..Len(order) |-> ToFloat32(DictGet(d, order[i]))] >>

-----------------------------------------------------------------------------
(* Scoring (line 158) and categorization (lines 159-171).                  *)

\* numpy values: a scalar, or an array of scalars or arrays
Scalar(v)    == [tag |-> "scalar", v |-> v]
Array(items) == [tag |-> "array", items |-> items]

\* the list session.run returns for the float32 score s, by the shape of the artifact's
\* first output: one value per row ("vector"), or one row of one ("column")
\* or two ("pair") columns
RunOutputs(outs, s) ==
    CASE outs = "vector" -> << Array(<<Scalar(s)>>) >>
      [] outs = "column" -> << Array(<< Array(<<Scalar(s)>>) >>) >>
      [] outs = "pair"   ->
            << Array(<< Array(<<Scalar(s),
                                Scalar(Float32(Rat(s.d - s.n, s.d)))>>) >>) >>

\* session.run(None, {"input": row}): the artifact takes rows of its own
\* width only
ModelRun(session, row, s) ==
    IF Len(row[1]) # session.width
    THEN [exc |-> "InvalidArgument", val |-> NoneVal]
    ELSE [exc |-> "none", val |-> RunOutputs(session.outs, s)]

\* line 158: model.run(...)[0][0]
Pred(session, row, s) ==
    LET r == ModelRun(session, row, s)
    IN  IF r.exc # "none" THEN r
        ELSE [exc |-> "none", val |-> r.val[1].items[1]]

\* the cut points of lines 161 and 164.  prob is a float32 and the literal
\* a float: numpy compares them as floats, or as float32 with the literal
\* rounded to float32.  No float32 lies between 0.20 and either rounding
\* of it, and 0.50 is its own rounding, so both comparisons are the
\* comparison of prob with the decimal.
LowCut  == Rat(20, 100)
HighCut == Rat(50, 100)

\* a variant of IfLess: `<=` for `<`
IfLessOrEqual(prob, cut) ==
    IF prob.tag = "scalar"
    THEN [exc |-> "none", val |-> ~Less(cut, prob.v)]
    ELSE IF Len(prob.items) = 1 /\ prob.items[1].tag = "scalar"
    THEN [exc |-> "none", val |-> ~Less(cut, prob.items[1].v)]
    ELSE [exc |-> "ValueError", val |-> FALSE]

\* `if prob < cut`: a scalar compares; an array compares element by element
\* and its truth value exists only when it has exactly one element
IfLess(prob, cut) ==
    IF prob.tag = "scalar"
    THEN [exc |-> "none", val |-> Less(prob.v, cut)]
    ELSE IF Len(prob.items) = 1 /\ prob.items[1].tag = "scalar"
    THEN [exc |-> "none", val |-> Less(prob.items[1].v, cut)]
    ELSE [exc |-> "ValueError", val |-> FALSE]

\* lines 161-169
categorize(prob) ==
    LET c1 == IfLess(prob, LowCut)
        c2 == IfLess(prob, HighCut)
    IN  IF c1.exc # "none" THEN [exc |-> c1.exc, val |-> NoneVal]
        ELSE IF c1.val
        THEN [exc |-> "none", val |-> [risk_class |-> "green", label |-> "NO RISK"]]
        ELSE IF c2.exc # "none" THEN [exc |-> c2.exc, val |-> NoneVal]
        ELSE IF c2.val
        THEN [exc |-> "none", val |-> [risk_class |-> "yellow", label |-> "LOW RISK"]]
        ELSE [exc |-> "none", val |-> [risk_class |-> "red", label |-> "HIGH RISK"]]

\* x rounded to a whole number, ties to even
RoundHalfEven(x) ==
    LET q == x.n \div x.d
        r == x.n % x.d
    IN  IF 2 * r > x.d \/ (2 * r = x.d /\ q % 2 = 1) THEN q + 1 ELSE q

\* f"{prob:.2f}": the hundredths shown, the exact value of the float32
\* rounded; an array has no such format
Format2f(prob) ==
    IF prob.tag = "scalar"
    THEN [exc |-> "none", val |-> RoundHalfEven(Rat(100 * prob.v.n, prob.v.d))]
    ELSE [exc |-> "TypeError", val |-> 0]

\* prob * 100 of line 65, prob a float32 scalar and 100 a Python int: the
\* product as a float (it is exact) where numpy promotes the pair to
\* float64, the product rounded to float32 where it keeps float32
GaugeValues(prob) ==
    {Rat(100 * prob.v.n, prob.v.d), Float32(Rat(100 * prob.v.n, prob.v.d))}

\* lines 171-175: the banner, and the gauge showing g
Display(lab, prob, g) ==
    LET f == Format2f(prob)
    IN  IF f.exc # "none" THEN [exc |-> f.exc, val |-> NoneVal]
        ELSE [exc |-> "none",
              val |-> [risk_class |-> lab.risk_class, label |-> lab.label,
                       hundredths |-> f.val, gauge |-> g]]

-----------------------------------------------------------------------------
(* The files, the sessions and the inputs the behaviours draw from.        *)

\* the keys of data_dict in the order of lines 136-153
FullOrder ==
    <<"Gender", "Age_Group", "Pregnancy_status", "Blood_pressure",
      "Cholesterol", "Diabetes", "Home_pesticides", "Weed_pesticides",
      "Had_asthma", "Still_asthma", "ER_visit_past_year", "Smoking_frequency",
      "Cigarettes_per_day", "Duration_insulin", "Weight_kg", "Height_cm",
      "BMI", "Exercise_per_month">>

ShortOrder == <<"Age_Group", "Race">>

\* feature orders the schema file holds in the behaviours of the
\* application: the full one, and one of two names, one of them a name the
\* form does not collect
OrderSamples == {FullOrder, ShortOrder}

Missing   == [tag |-> "missing"]
Malformed == [tag |-> "malformed"]
Json(items) == [tag |-> "json", items |-> items]
Onnx(width, outs) == [tag |-> "onnx", width |-> width, outs |-> outs]

\* what asthma_rf.onnx may be: absent, or an artifact with its input width
\* and the shape of its first output
ModelFiles ==
    {Missing, Onnx(Len(FullOrder), "vector"), Onnx(Len(FullOrder), "pair"),
     Onnx(Len(ShortOrder), "column")}

\* what feature_order.json may be
FeatFiles == {Missing, Malformed} \cup {Json(o) : o \in OrderSamples}

\* scores the artifact may return: the float32 nearest to 0.10, 0.20, 0.50
ScoreSamples == {Float32(Rat(k, 100)) : k \in {10, 20, 50}}

Text6Months == <<"6", " ", "m", "o", "n", "t", "h", "s">>
TextAbc     == <<"a", "b", "c">>

\* 0.99999999999999999: the float nearest to it is 1.0
Text17Nines == <<"0", ".">> \o [i \in 1..17 |-> "9"]

\* duration texts typed in the behaviours of the application
DurationSamples == {Invalid, Text6Months, TextAbc, <<>>}

\* the characters of the duration texts enumerated to MaxLen
DurationAlphabet == {"0", "6", "U+FF16", ".", "-", " ", "\f", "e", "n"}

\* longer texts: the documented examples, words float() reads, numbers
\* past the range of a double and past the 24 bits of a float32, separators
\* other than the space, digits other than the ASCII ones, and decimals of
\* more digits than a float holds, next to the largest float and past the
\* integers of the model
LongTexts ==
    {Invalid, Text6Months, TextAbc, <<"n", "a", "n">>,
     <<"6", "\n", "m", "o", "n", "t", "h", "s">>,
     <<"6", "\r", "m", "o", "n", "t", "h", "s">>,
     <<"6", "U+000B", "m", "o", "n", "t", "h", "s">>,
     <<"6", "U+00A0", "m", "o", "n", "t", "h", "s">>,
     <<"U+3000", "6", "U+2028", "x">>, <<"U+0085", "U+001C">>,
     <<"U+0663", " ", "m", "o", "n", "t", "h", "s">>,
     <<"U+FF11", "U+FF12", ".", "5">>, <<"1", "U+0669", "e", "U+0661">>,
     <<"6", "U+200B", "7">>,
     <<"I", "N", "F">>, <<"-", "i", "n", "f", "i", "n", "i", "t", "y">>,
     <<"N", "a", "N">>, <<"1", "e", "4", "0", "0">>, <<"1", "E", "+", "2">>,
     <<"+", "1", "_", "0">>, <<"1", "_", "_", "0">>, <<"\t", "7", "\t", "x">>,
     <<"I", "n", "v", "a", "l", "i", "d", " ", "1">>,
     <<"1", "6", "7", "7", "7", "2", "1", "7">>,
     Text17Nines, <<"5", ".">> \o [i \in 1..16 |-> "9"],
     <<"2", "e", "3", "0", "8">>, <<"1", ".", "8", "e", "3", "0", "8">>,
     <<"1", ".", "7", "e", "3", "0", "8">>, <<"1", "e", "3", "0">>,
     <<"-", "1", "e", "3", "0">>, <<"1", "e", "3", "9">>,
     <<"9", "0", "0", "7", "1", "9", "9", "2", "5", "4", "7", "4", "0", "9",
       "9", "3">>,
     <<"4", "2", "9", "4", "9", "6", "7", "2", "9", "6", ".", "5">>,
     <<"2", "1", "4", "7", "4", "8", "3", "6", "4", "7">>,
     <<"2", "1", "4", "7", "4", "8", "3", "6", "4", "8">>,
     <<"1", "e", "-", "4", "0", "0">>,
     <<"1", "e", "9", "9", "9", "9", "9", "9", "9", "9", "9", "9">>}

\* every duration text the encoder is checked on
DurationTexts ==
    {x \in UNION {[1..m -> DurationAlphabet] : m \in 0..MaxLen} :
        DurationInRange(x)} \cup LongTexts

\* the values a widget can take
WidgetChoices(w) ==
    CASE w = "gender_label"     -> Range(GenderOptions)
      [] w = "age_group"        -> Range(age_keys)
      [] w \in YesNoWidgets     -> Range(YesNoOptions)
      [] w = "smoking"          -> Range(smoking_keys)
      [] w = "cigs"             -> Range(cigs_keys)
      [] w = "weight"           -> WeightFloats
      [] w = "height"           -> HeightFloats
      [] w = "exercise"         -> {0, 8, 30}
      [] w = "duration_insulin" -> DurationSamples

Widgets == DOMAIN DefaultAnswers

\* the widgets the user changes in the behaviours of the application; the
\* height is changed in the behaviours of the resubmissions
EditedWidgets ==
    {"age_group", "smoking", "weight", "duration_insulin"}

-----------------------------------------------------------------------------
(* The cached loaders (lines 16-26).                                       *)

\* ort.InferenceSession("asthma_rf.onnx")
ReadModel(file) ==
    IF file.tag = "onnx"
    THEN [exc |-> "none",
          val |-> [tag |-> "session", width |-> file.width, outs |-> file.outs]]
    ELSE [exc |-> "NoSuchFile", val |-> NoneVal]

\* open("feature_order.json") and json.load
ReadFeatures(file) ==
    CASE file.tag = "json"      -> [exc |-> "none",
                                    val |-> [tag |-> "list", items |-> file.items]]
      [] file.tag = "missing"   -> [exc |-> "FileNotFoundError", val |-> NoneVal]
      [] file.tag = "malformed" -> [exc |-> "JSONDecodeError", val |-> NoneVal]

\* a variant of Cached: the entry is stored, and the loader runs all the same
CachedReload(cache, loaded) ==
    [exc |-> loaded.exc, val |-> loaded.val,
     cache |-> IF loaded.exc = "none" THEN loaded.val ELSE cache,
     ran |-> loaded.exc = "none"]

\* @st.cache_resource around a loader: a stored entry is returned as it is;
\* otherwise the loader runs, and its result is stored unless it raised
Cached(cache, loaded) ==
    IF cache # NoneVal
    THEN [exc |-> "none", val |-> cache, cache |-> cache, ran |-> FALSE]
    ELSE [exc |-> loaded.exc, val |-> loaded.val,
          cache |-> IF loaded.exc = "none" THEN loaded.val ELSE cache,
          ran |-> loaded.exc = "none"]

load_model    == Cached(modelCache, ReadModel(modelFile))
load_features == Cached(featCache, ReadFeatures(featFile))

-----------------------------------------------------------------------------
(* The script run, step by step.                                           *)

runLocals == <<model, feature_order, tables, bmi, data_dict, input_row, pred,
               label, shown, error>>
disk      == <<modelFile, featFile>>
caches    == <<modelCache, featCache, modelParses, featParses>>

\* a run starts at the top of the script with fresh globals
StartRun(clicked) ==
    /\ pc = "idle"
    /\ pc' = "load_model"
    /\ button' = clicked
    /\ formShown' = FALSE
    /\ model' = NoneVal /\ feature_order' = NoneVal /\ tables' = NoneVal
    /\ bmi' = NoneVal /\ data_dict' = NoneVal /\ input_row' = <<>>
    /\ pred' = NoneVal /\ label' = NoneVal /\ shown' = NoneVal
    /\ error' = "none"
    /\ UNCHANGED <<libm, disk, caches, firstSub>>

\* an uncaught exception ends the run
Raise(e) == error' = e /\ pc' = "idle"

\* a browser opens the page: a new session with the widgets' defaults
OpenPage ==
    /\ StartRun(FALSE)
    /\ answers' = DefaultAnswers
    /\ UNCHANGED edits

\* the user changes one widget of the form on the page; a behaviour has at
\* most `most` such changes
ChangeWidget(w, v, most) ==
    /\ formShown
    /\ edits < most
    /\ v # answers[w]
    /\ StartRun(FALSE)
    /\ answers' = [answers EXCEPT ![w] = v]
    /\ edits' = edits + 1

\* the user clicks the Predict button of the form on the page
ClickPredict ==
    /\ formShown
    /\ StartRun(TRUE)
    /\ UNCHANGED <<answers, edits>>

\* line 25
LoadModel ==
    /\ pc = "load_model"
    /\ LET r == load_model
       IN  /\ modelCache' = r.cache
           /\ modelParses' = IF r.ran THEN modelParses + 1 ELSE modelParses
           /\ IF r.exc # "none"
              THEN Raise(r.exc) /\ UNCHANGED model
              ELSE model' = r.val /\ pc' = "load_features" /\ UNCHANGED error
    /\ UNCHANGED <<libm, disk, featCache, featParses, button, answers, edits,
                   feature_order, tables, bmi, data_dict, input_row, pred,
                   label, shown, formShown, firstSub>>

\* a variant of LoadFeatures: the exception is caught and the run goes on
LoadFeaturesCaught ==
    /\ pc = "load_features"
    /\ featCache' = load_features.cache
    /\ featParses' = IF load_features.ran THEN featParses + 1 ELSE featParses
    /\ feature_order' = load_features.val
    /\ pc' = "form"
    /\ UNCHANGED <<libm, disk, modelCache, modelParses, button, answers, edits,
                   model, tables, bmi, data_dict, input_row, pred, label,
                   shown, error, formShown, firstSub>>

\* line 26
LoadFeatures ==
    /\ pc = "load_features"
    /\ LET r == load_features
       IN  /\ featCache' = r.cache
           /\ featParses' = IF r.ran THEN featParses + 1 ELSE featParses
           /\ IF r.exc # "none"
              THEN Raise(r.exc) /\ UNCHANGED feature_order
              ELSE feature_order' = r.val /\ pc' = "form" /\ UNCHANGED error
    /\ UNCHANGED <<libm, disk, modelCache, modelParses, button, answers, edits,
                   model, tables, bmi, data_dict, input_row, pred, label,
                   shown, formShown, firstSub>>

\* lines 31-133: the page, the tables, the widgets, the BMI, the button.
\* pow is a function of its argument: a height it has squared before gets
\* the rounding it got then, a new height either rounding.
RenderForm ==
    /\ pc = "form"
    /\ tables' = Tables
    /\ formShown' = TRUE
    /\ \E r \in Roundings :
          /\ answers.height \in DOMAIN libm => r = libm[answers.height]
          /\ libm' = [h \in DOMAIN libm \cup {answers.height} |->
                         IF h = answers.height THEN r ELSE libm[h]]
          /\ bmi' = Bmi(answers, r)
    /\ pc' = IF button THEN "encode" ELSE "idle"
    /\ UNCHANGED <<disk, caches, button, answers, edits, model, feature_order,
                   data_dict, input_row, pred, label, shown, error, firstSub>>

\* a variant of Encode: the last name is popped off the loaded order
EncodePopping ==
    /\ pc = "encode"
    /\ data_dict' = BuildDataDict(answers, tables, bmi).val
    /\ input_row' = InputRow(BuildDataDict(answers, tables, bmi).val,
                             feature_order.items)
    /\ featCache' = [featCache EXCEPT
                       !.items = SubSeq(@, 1, Len(@) - 1)]
    /\ pc' = "score"
    /\ UNCHANGED <<libm, disk, modelCache, modelParses, featParses, button, answers,
                   edits, model, feature_order, tables, bmi, pred, label,
                   shown, error, formShown>>

\* lines 135-156, d being the dict literal or what it raised
EncodeWith(d) ==
    IF d.exc # "none"
    THEN Raise(d.exc) /\ UNCHANGED <<data_dict, input_row>>
    ELSE /\ data_dict' = d.val
         /\ input_row' = InputRow(d.val, feature_order.items)
         /\ pc' = "score"
         /\ UNCHANGED error

Encode ==
    /\ pc = "encode"
    /\ EncodeWith(BuildDataDict(answers, tables, bmi))
    /\ UNCHANGED <<libm, disk, caches, button, answers, edits, model, feature_order,
                   tables, bmi, pred, label, shown, formShown>>

EncodeStep == Encode /\ UNCHANGED firstSub

\* the same step, remembering the first submission encoded (its answers,
\* the feature order and the vector) and whether a submission with other
\* answers was encoded after it
EncodeTracked ==
    /\ Encode
    /\ firstSub' =
          IF pc' # "score" THEN firstSub
          ELSE IF firstSub = NoneVal
          THEN [answers |-> answers, order |-> feature_order.items,
                input_row |-> input_row', others |-> FALSE]
          ELSE IF answers # firstSub.answers
          THEN [firstSub EXCEPT !.others = TRUE]
          ELSE firstSub

\* a variant of Score: a failure of the artifact is caught and scored 0
ScoreMasked(s) ==
    /\ pc = "score"
    /\ pred' = IF Pred(model, input_row, s).exc # "none" THEN Scalar(R(0))
               ELSE Pred(model, input_row, s).val
    /\ pc' = "categorize"
    /\ UNCHANGED <<libm, disk, caches, button, answers, edits, model, feature_order,
                   tables, bmi, data_dict, input_row, label, shown, error,
                   formShown, firstSub>>

\* line 158, the artifact returning score s
Score(s) ==
    /\ pc = "score"
    /\ LET r == Pred(model, input_row, s)
       IN  IF r.exc # "none"
           THEN Raise(r.exc) /\ UNCHANGED pred
           ELSE pred' = r.val /\ pc' = "categorize" /\ UNCHANGED error
    /\ UNCHANGED <<libm, disk, caches, button, answers, edits, model, feature_order,
                   tables, bmi, data_dict, input_row, label, shown, formShown,
                   firstSub>>

\* lines 159-169
Categorize ==
    /\ pc = "categorize"
    /\ LET r == categorize(pred)
       IN  IF r.exc # "none"
           THEN Raise(r.exc) /\ UNCHANGED label
           ELSE label' = r.val /\ pc' = "display" /\ UNCHANGED error
    /\ UNCHANGED <<libm, disk, caches, button, answers, edits, model, feature_order,
                   tables, bmi, data_dict, input_row, pred, shown, formShown,
                   firstSub>>

\* lines 171-188
Show ==
    /\ pc = "display"
    /\ IF Format2f(pred).exc # "none"
       THEN Raise(Format2f(pred).exc) /\ UNCHANGED shown
       ELSE /\ \E g \in GaugeValues(pred) : shown' = Display(label, pred, g).val
            /\ pc' = "idle"
            /\ UNCHANGED error
    /\ UNCHANGED <<libm, disk, caches, button, answers, edits, model, feature_order,
                   tables, bmi, data_dict, input_row, pred, label, formShown,
                   firstSub>>

\* the files are put in place or replaced while the process runs
WriteModelFile(f) ==
    /\ pc = "idle"
    /\ f # modelFile
    /\ modelFile' = f
    /\ UNCHANGED <<libm, featFile, caches, pc, button, answers, edits, runLocals,
                   formShown, firstSub>>

WriteFeatFile(f) ==
    /\ pc = "idle"
    /\ f # featFile
    /\ featFile' = f
    /\ UNCHANGED <<libm, modelFile, caches, pc, button, answers, edits, runLocals,
                   formShown, firstSub>>

\* the process has started and no browser has opened the page yet
InitWith(mf, ff) ==
    /\ libm = <<>>
    /\ modelFile = mf /\ featFile = ff
    /\ modelCache = NoneVal /\ featCache = NoneVal
    /\ modelParses = 0 /\ featParses = 0
    /\ pc = "idle" /\ button = FALSE
    /\ answers = DefaultAnswers /\ edits = 0
    /\ model = NoneVal /\ feature_order = NoneVal /\ tables = NoneVal
    /\ bmi = NoneVal /\ data_dict = NoneVal /\ input_row = <<>>
    /\ pred = NoneVal /\ label = NoneVal /\ shown = NoneVal
    /\ error = "none" /\ formShown = FALSE /\ firstSub = NoneVal

Init == \E mf \in ModelFiles, ff \in FeatFiles : InitWith(mf, ff)

Next ==
    \/ OpenPage
    \/ \E w \in EditedWidgets : \E v \in WidgetChoices(w) :
          ChangeWidget(w, v, MaxEdits)
    \/ ClickPredict
    \/ LoadModel
    \/ LoadFeatures
    \/ RenderForm
    \/ EncodeStep
    \/ \E s \in ScoreSamples : Score(s)
    \/ Categorize
    \/ Show
    \/ \E f \in ModelFiles : WriteModelFile(f)
    \/ \E f \in FeatFiles : WriteFeatFile(f)

Spec == Init /\ [][Next]_vars

-----------------------------------------------------------------------------
(* Resubmission: the application with both files in place, the first       *)
(* submission remembered.  The user changes the height and the duration    *)
(* text, often enough to submit answers other than the defaults, change    *)
(* them, submit, change them back and submit again within one session.     *)

InitResubmit == InitWith(Onnx(Len(FullOrder), "vector"), Json(FullOrder))

NextResubmit ==
    \/ OpenPage
    \/ \E w \in {"height", "duration_insulin"} :
          \E v \in WidgetChoices(w) : ChangeWidget(w, v, MaxResubmitEdits)
    \/ ClickPredict
    \/ LoadModel
    \/ LoadFeatures
    \/ RenderForm
    \/ EncodeTracked
    \/ \E s \in ScoreSamples : Score(s)
    \/ Categorize
    \/ Show

SpecResubmit == InitResubmit /\ [][NextResubmit]_vars

-----------------------------------------------------------------------------
(* The encoder on its own: a run that has reached line 135, for every      *)
(* choice of answers and feature order in the sets below.                  *)

\* a run of a Predict click at position p, with pr for the score when
\* line 158 has run
InitAt(p, a, order, file, pr) ==
    /\ libm \in [{a.height} -> Roundings]
    /\ modelFile = file /\ featFile = Json(order)
    /\ modelCache = ReadModel(file).val
    /\ featCache = ReadFeatures(Json(order)).val
    /\ modelParses = 1 /\ featParses = 1
    /\ pc = p /\ button = TRUE
    /\ answers = a /\ edits = 0
    /\ model = ReadModel(file).val
    /\ feature_order = ReadFeatures(Json(order)).val
    /\ tables = Tables /\ bmi = Bmi(a, libm[a.height])
    /\ data_dict = IF p = "encode" THEN NoneVal
                   ELSE BuildDataDict(a, Tables, Bmi(a, libm[a.height])).val
    /\ input_row = IF p = "encode" THEN <<>>
                   ELSE InputRow(BuildDataDict(a, Tables,
                                               Bmi(a, libm[a.height])).val,
                                 order)
    /\ pred = pr /\ label = NoneVal /\ shown = NoneVal
    /\ error = "none" /\ formShown = TRUE /\ firstSub = NoneVal

\* the answers that differ from a in one widget
OneChange(a) ==
    UNION {{[a EXCEPT ![w] = v] : v \in WidgetChoices(w)} : w \in Widgets}

\* the answers that differ from the defaults in at most k widgets
RECURSIVE ChangedAnswers(_)
ChangedAnswers(k) ==
    IF k = 0 THEN {DefaultAnswers}
    ELSE UNION {OneChange(a) : a \in ChangedAnswers(k - 1)}

\* names of feature orders: three the form encodes, one it does not
OrderNames == {"Age_Group", "Duration_insulin", "BMI", "Race"}

\* the documented order of 17 names, without Gender
OrderNoGender == Tail(FullOrder)

\* every feature order the encoder is checked on
EncodeOrders ==
    UNION {[1..m -> OrderNames] : m \in 0..MaxOrderLen}
        \cup {FullOrder, OrderNoGender}

\* the orders the duration texts are encoded under
DurationOrders ==
    {<<"Duration_insulin">>, <<"Duration_insulin", "Race", "Duration_insulin">>}

InitEncode ==
    \/ \E a \in ChangedAnswers(MaxEdits), o \in EncodeOrders :
          InitAt("encode", a, o, Onnx(Len(o), "vector"), NoneVal)
    \/ \E x \in DurationTexts, o \in DurationOrders :
          InitAt("encode", [DefaultAnswers EXCEPT !.duration_insulin = x], o,
                 Onnx(Len(o), "vector"), NoneVal)

SpecEncode == InitEncode /\ [][EncodeStep]_vars

-----------------------------------------------------------------------------
(* The categorizer on its own: a run that has reached line 159 with a      *)
(* scalar score.                                                           *)

\* the grid of scores: k / ScoreSteps for k in 0 .. ScoreSteps
ScoreSteps == 200

\* scores next to the cut points, as in the documented boundary test
BoundaryScores ==
    {Rat(k, 100000) : k \in {19999, 20000, 20001, 49999, 50000, 50001}}

\* the scores the categorizer is checked on, as the float32 the tensor
\* holds: the grid, and the scores at and next to the cut points.  The
\* integers of the model hold the float32 of 0 and of scores from 1/128 on.
CategorizeScores ==
    {Float32(s) : s \in {r \in {Rat(k, ScoreSteps) : k \in 0..ScoreSteps} :
                             r.n = 0 \/ ~Less(r, Rat(1, 128))}
                         \cup BoundaryScores}

InitCategorize ==
    \E s \in CategorizeScores :
        InitAt("categorize", DefaultAnswers, FullOrder,
               Onnx(Len(FullOrder), "vector"), Scalar(s))

NextCategorize == Categorize \/ Show

SpecCategorize == InitCategorize /\ [][NextCategorize]_vars

-----------------------------------------------------------------------------
(* The properties.                                                         *)

\* the names the dict literal of lines 135-154 encodes
EncodedFields == Range(FullOrder)

\* the key of data_dict each Yes / No widget is stored under (lines 138-146)
FieldOfWidget ==
    [pregnancy |-> "Pregnancy_status", blood_pressure |-> "Blood_pressure",
     cholesterol |-> "Cholesterol", diabetes |-> "Diabetes",
     home_pes |-> "Home_pesticides", weed_pes |-> "Weed_pesticides",
     had_asthma |-> "Had_asthma", still_asthma |-> "Still_asthma",
     er_visit |-> "ER_visit_past_year"]

\* C1: after a Predict click has built the vector, position i holds the
\* encoded value of the field named by position i of the feature order (as
\* the float32 the array stores) when that name is a key of data_dict, and
\* 0 when it is not; no name makes the step fail.
C1_PositionsHoldFields ==
    pc # "encode" =>
        /\ pc = "score" /\ error = "none"
        /\ DOMAIN input_row[1] = DOMAIN feature_order.items
        /\ \A i \in DOMAIN feature_order.items :
              input_row[1][i] =
                  IF feature_order.items[i] \in EncodedFields
                  THEN ToFloat32(data_dict[feature_order.items[i]])
                  ELSE R(0)

\* a vector built from an order that names an unknown field first
C1_Witness ==
    /\ pc = "score"
    /\ feature_order.items = <<"Race", "Age_Group">>
    /\ answers.age_group = "60+"
    /\ input_row = << <<R(0), R(4)>> >>

\* C2: whenever every categorical answer is a key of its lookup table,
\* whatever the duration text and whatever names the feature order holds,
\* encoding raises nothing and gives one row of exactly len(FeatureOrder)
\* values.
C2_VectorLength ==
    (pc # "encode" /\ KeysPresent(answers, Tables)) =>
        /\ pc = "score" /\ error = "none"
        /\ Len(input_row) = 1
        /\ Len(input_row[1]) = Len(feature_order.items)

\* a vector built from an order that repeats a name and names an unknown
\* field, the duration text not being a number
C2_Witness ==
    /\ pc = "score"
    /\ feature_order.items = <<"Duration_insulin", "Race", "Duration_insulin">>
    /\ answers.duration_insulin = TextAbc
    /\ Len(input_row[1]) = 3

\* C3: for a scalar score in [0,1] the categorizer fails nowhere and gives
\* exactly one label: NO RISK below 0.20, LOW RISK from 0.20 to below 0.50,
\* HIGH RISK from 0.50 on; the score the tensor holds for 0.20 is LOW RISK
\* and 0.50 itself HIGH RISK.
C3_Categorize ==
    (pc # "categorize" /\ pred # NoneVal /\ pred.tag = "scalar") =>
        /\ error = "none" /\ label # NoneVal
        /\ label.label \in {"NO RISK", "LOW RISK", "HIGH RISK"}
        /\ label.label = "NO RISK" <=> 5 * pred.v.n < pred.v.d
        /\ label.label = "LOW RISK" <=>
              (pred.v.d <= 5 * pred.v.n /\ 2 * pred.v.n < pred.v.d)
        /\ label.label = "HIGH RISK" <=> pred.v.d <= 2 * pred.v.n
        /\ pred.v = Float32(Rat(1, 5)) => label.label = "LOW RISK"
        /\ pred.v = Rat(1, 2) => label.label = "HIGH RISK"

\* the score 0.20, as the tensor holds it, categorized
C3_Witness ==
    /\ pc = "display"
    /\ pred = Scalar(Float32(Rat(1, 5)))
    /\ label = [risk_class |-> "yellow", label |-> "LOW RISK"]

IsDigitText(s) == \A i \in 1..Len(s) : s[i] \in Digits

\* the characters a token float() accepts can hold
NumberChars ==
    Digits \cup {".", "+", "-", "_", "e", "E", "i", "I", "n", "N", "f", "F",
                 "a", "A", "t", "T", "y", "Y"}

\* body spells digits, or digits, a point and digits, the first k
\* characters being the integer part
PlainDecimal(body, k) ==
    /\ k >= 1 /\ k <= Len(body)
    /\ IsDigitText(SubSeq(body, 1, k))
    /\ \/ k = Len(body)
       \/ body[k + 1] = "." /\ IsDigitText(SubSeq(body, k + 2, Len(body)))

\* the number the first k characters of body spell
IntegerPart(body, k) == DecimalValue([i \in 1..k |-> DigitVal(body[i])])

\* C4: encode_duration raises nothing to its caller, whatever the text; it
\* gives -1 for the text "Invalid", for a text with no token, for a first
\* token that is not a number and for a number int() cannot convert; for a
\* first token that is a decimal number it gives the number, as float()
\* reads it, truncated toward zero: the integer part of a decimal of at
\* most SmallDigits characters, and 1 for 0.99999999999999999, which
\* float() reads as 1.0.  "6 months" gives 6; "Invalid", "abc" and ""
\* give -1.
C4_DurationEncoding ==
    pc # "encode" =>
        /\ pc = "score" /\ error = "none"
        /\ LET x   == answers.duration_insulin
               v   == data_dict.Duration_insulin
               tok == FirstToken(x)
           IN  /\ x = Invalid => v = R(-1)
               /\ ~HasToken(x) => v = R(-1)
               /\ x = Text6Months => v = R(6)
               /\ x = TextAbc => v = R(-1)
               /\ x = <<>> => v = R(-1)
               /\ x \in {<<"N", "a", "N">>, <<"I", "N", "F">>,
                         <<"1", "e", "4", "0", "0">>,
                         <<"2", "e", "3", "0", "8">>} => v = R(-1)
               /\ x = Text17Nines => v = R(1)
               /\ (HasToken(x) /\ \E i \in 1..Len(tok) : tok[i] \notin NumberChars)
                     => v = R(-1)
               /\ \A k \in 1..Len(tok) :
                     Len(tok) <= SmallDigits =>
                         /\ PlainDecimal(tok, k) => v = R(IntegerPart(tok, k))
                         /\ (tok[1] = "-" /\ PlainDecimal(Tail(tok), k))
                               => v = R(-IntegerPart(Tail(tok), k))

\* a negative number with a fraction, truncated toward zero
C4_Witness ==
    /\ pc = "score"
    /\ answers.duration_insulin = <<"-", "6", ".", "6">>
    /\ data_dict.Duration_insulin = R(-6)

\* C5: every categorical answer is encoded by its table: the age bracket
\* to its position 0..4 in bracket order, each Yes / No answer to 1 / 0,
\* the smoking frequency and the cigarette bucket to 0..2 in option order
\* or to -1 for "Invalid"; no other value is ever stored.
C5_CategoricalCodes ==
    pc = "score" =>
        /\ \E k \in 1..5 :
              age_keys[k] = answers.age_group /\ data_dict.Age_Group = R(k - 1)
        /\ \A w \in YesNoWidgets :
              \/ answers[w] = "Yes" /\ data_dict[FieldOfWidget[w]] = R(1)
              \/ answers[w] = "No" /\ data_dict[FieldOfWidget[w]] = R(0)
        /\ \/ \E k \in 1..3 : /\ smoking_keys[k] = answers.smoking
                              /\ data_dict.Smoking_frequency = R(k - 1)
           \/ /\ answers.smoking = "Invalid"
              /\ data_dict.Smoking_frequency = R(-1)
        /\ \/ \E k \in 1..3 : /\ cigs_keys[k] = answers.cigs
                              /\ data_dict.Cigarettes_per_day = R(k - 1)
           \/ /\ answers.cigs = "Invalid"
              /\ data_dict.Cigarettes_per_day = R(-1)

\* the explicit "Invalid" smoking choice encoded
C5_Witness ==
    /\ pc = "score"
    /\ answers.smoking = "Invalid"
    /\ data_dict.Smoking_frequency = R(-1)

\* C6: when the vector's width differs from the width the artifact takes,
\* the vector is as long as the feature order (neither cut nor padded), the
\* scoring step ends the run with the artifact's error, and no score, label
\* or banner exists in that run.
C6_WidthMismatchSurfaces ==
    (model # NoneVal /\ input_row # <<>> /\ Len(input_row[1]) # model.width) =>
        /\ Len(input_row[1]) = Len(feature_order.items)
        /\ pred = NoneVal /\ label = NoneVal /\ shown = NoneVal
        /\ pc = "score" \/ (pc = "idle" /\ error = "InvalidArgument")

\* a run ended by the artifact refusing a vector of 2 for its width 18
C6_Witness ==
    /\ pc = "idle" /\ error = "InvalidArgument"
    /\ input_row # <<>> /\ Len(input_row[1]) = 2
    /\ model.width = 18

\* C7: once a loader has succeeded its entry never changes and its file is
\* never read again: every later load_model / load_features returns the
\* stored object, each file is parsed at most once, and no step of a
\* prediction changes either entry.
C7_LoadedOnce ==
    [][ /\ modelCache # NoneVal =>
              modelCache' = modelCache /\ modelParses' = modelParses
        /\ featCache # NoneVal =>
              featCache' = featCache /\ featParses' = featParses
        /\ (pc = "load_model" /\ modelCache # NoneVal) =>
              model' = modelCache /\ pc' = "load_features"
        /\ (pc = "load_features" /\ featCache # NoneVal) =>
              feature_order' = featCache /\ pc' = "form"
        /\ modelParses' <= 1 /\ featParses' <= 1 ]_vars

\* a run that got both objects although neither file can be read any more
C7_Witness ==
    /\ pc = "form"
    /\ modelFile = Missing /\ featFile = Malformed
    /\ model # NoneVal /\ model = modelCache
    /\ feature_order # NoneVal /\ feature_order = featCache

\* the exceptions of the two loaders
LoadErrors == {"NoSuchFile", "FileNotFoundError", "JSONDecodeError"}

\* C8: a run in which a loader failed stops there: the form is not shown
\* and nothing is encoded, scored or categorized in it; the form and every
\* step of a prediction come only after both loaders returned in that run.
C8_LoadFailureStopsRun ==
    /\ (\/ formShown
        \/ pc \in {"form", "encode", "score", "categorize", "display"}
        \/ data_dict # NoneVal \/ input_row # <<>> \/ pred # NoneVal
        \/ label # NoneVal \/ shown # NoneVal)
          => (model # NoneVal /\ feature_order # NoneVal)
    /\ error \in LoadErrors =>
          /\ pc = "idle" /\ ~formShown
          /\ data_dict = NoneVal /\ input_row = <<>> /\ pred = NoneVal
          /\ label = NoneVal /\ shown = NoneVal

\* a run stopped by the schema file after the artifact had loaded
C8_Witness ==
    /\ pc = "idle" /\ error = "JSONDecodeError"
    /\ model # NoneVal /\ feature_order = NoneVal
    /\ ~formShown

\* C9: whatever was submitted in between, and whatever heights were
\* squared in between, the answers of the first submission under the same
\* feature order give the vector they gave the first time; and the
\* encoding step changes neither the lookup tables nor the loaded feature
\* order.
C9_SameAnswersSameVector ==
    /\ []((/\ firstSub # NoneVal /\ input_row # <<>>
           /\ answers = firstSub.answers
           /\ feature_order.items = firstSub.order)
              => input_row = firstSub.input_row)
    /\ [][pc = "encode" =>
              /\ tables' = tables /\ tables = Tables
              /\ feature_order' = feature_order
              /\ featCache' = featCache]_vars

\* answers other than the defaults, with a height other than the default,
\* encoded again after other answers with a third height were: the height
\* was changed and changed back within the session
C9_Witness ==
    /\ firstSub # NoneVal /\ firstSub.others
    /\ pc = "score"
    /\ answers = firstSub.answers
    /\ answers.height # DefaultAnswers.height
    /\ Cardinality(DOMAIN libm) >= 3
    /\ edits = MaxResubmitEdits

\* C10: when the artifact's first output is a matrix of one row, the value
\* the cut points are compared with is a scalar, the first element of that
\* row.
C10_ScoreIsScalar ==
    (pc = "categorize" /\ model.outs \in {"column", "pair"}) =>
        pred.tag = "scalar"

====
